---- MODULE Spec2Model ----
(***************************************************************************)
(* Model of the log analytics screen, the settings and the plugin manager  *)
(* of conversion-gui:                                                      *)
(*   LogAnalyzerThread  (src/src/screens/log_analytics_screen.py, 22-138)  *)
(*   LogAnalyticsScreen (src/src/screens/log_analytics_screen.py, 141-387) *)
(*   BaseScreen         (src/src/core/base_screen.py)                      *)
(*   Settings           (src/src/utils/settings.py)                        *)
(*   PluginManager      (src/src/plugins/plugin_manager.py)                *)
(* Strings are sequences of one-character strings.  The worker thread is   *)
(* cut into steps at its reads of the shared flag _running; signals that   *)
(* the worker emits are queued to the GUI thread (the thread object lives  *)
(* in the GUI thread, the emission happens in the worker).                 *)
(***************************************************************************)
EXTENDS Integers, Sequences, FiniteSets, TLC

\* ------------------------------------------------------------ bounds
\* longest file text drawn by InitScan
MaxLen == 3
\* largest chunk size drawn (the code's chunk_size is 1024 * 1024)
MaxChunk == 3
\* number of LogAnalyzerThread objects one behaviour may create
MaxJobs == 3
\* number of jobs one behaviour of the screen specification starts
ScreenJobs == 1
\* number of I/O faults the environment may inject in one behaviour
MaxFaults == 1
\* chunk size of the screen specification
DemoChunk == 2

\* how far around 0 and around the display cap the sizes of the result lists
\* of the display specification go
CapMargin == 4

\* display cap of _on_analysis_finished
\* load_data calls counted in the navigation specification
MaxCalls == 3
DisplayCap == 1000
\* chunk_size of _analyze_file (1024 * 1024)
ChunkSize == 1048576

NL == "\n"
\* characters of file contents
Alphabet == {"a", "B", NL}

\* ------------------------------------------------------------ strings
Min(a, b) == IF a <= b THEN a ELSE b

\* all strings over S of length at most n
RECURSIVE StringsUpTo(_, _)
StringsUpTo(S, n) ==
    IF n = 0 THEN {<<>>}
    ELSE LET shorter == StringsUpTo(S, n - 1)
         IN  shorter \cup {Append(s, c) : s \in {x \in shorter : Len(x) = n - 1}, c \in S}

\* str.lower() on the characters the model uses
LowerChar(c) == IF c = "B" THEN "b" ELSE c
Lower(s) == [i \in 1..Len(s) |-> LowerChar(s[i])]

\* sub in s  (contiguous substring test)
Contains(s, sub) ==
    \E i \in 0..(Len(s) - Len(sub)) : SubSeq(s, i + 1, i + Len(sub)) = sub

StartsWith(s, pre) == Len(pre) <= Len(s) /\ SubSeq(s, 1, Len(pre)) = pre

\* s.split('\n'): always at least one element, the last one is what follows
\* the last newline
RECURSIVE SplitFrom(_, _, _)
SplitFrom(s, i, cur) ==
    IF i > Len(s) THEN <<cur>>
    ELSE IF s[i] = NL THEN <<cur>> \o SplitFrom(s, i + 1, <<>>)
    ELSE SplitFrom(s, i + 1, Append(cur, s[i]))
Split(s) == SplitFrom(s, 1, <<>>)

\* lines[:-1]
AllButLast(q) == SubSeq(q, 1, Len(q) - 1)
\* lines[-1]
Last(q) == q[Len(q)]

\* str(n) for n >= 0
DigitChar(d) == <<"0", "1", "2", "3", "4", "5", "6", "7", "8", "9">>[d + 1]
RECURSIVE IntToStr(_)
IntToStr(n) == IF n < 10 THEN <<DigitChar(n)>>
               ELSE Append(IntToStr(n \div 10), DigitChar(n % 10))

\* "\n".join(items), computed by halves so that long lists stay shallow
RECURSIVE Join(_)
Join(items) ==
    IF items = <<>> THEN <<>>
    ELSE IF Len(items) = 1 THEN items[1]
    ELSE LET half == Len(items) \div 2
         IN  Join(SubSeq(items, 1, half)) \o <<NL>>
                \o Join(SubSeq(items, half + 1, Len(items)))

\* q[:n]
Take(q, n) == SubSeq(q, 1, Min(n, Len(q)))

\* ------------------------------------------------------------ matching
\* The search patterns the user may type.  In regex mode "b" and "B" are the
\* regexes of one literal character, "^a" anchors "a" at the start of the
\* line, and "(" is an unbalanced group, which re.compile rejects.
Patterns == {<<"b">>, <<"B">>, <<"^", "a">>, <<"(">>}

\* re.compile(pattern) succeeds
RegexCompiles(pattern) == ~(\E i \in 1..Len(pattern) : pattern[i] = "(")

\* regex.search(line) for the patterns above (case-sensitive, search anywhere)
RegexSearch(pattern, line) ==
    IF pattern # <<>> /\ pattern[1] = "^"
    THEN StartsWith(line, Tail(pattern))
    ELSE Contains(line, pattern)

\* mutant of LiteralSearch: the containment test is case-sensitive
LiteralSearchCaseSensitive(pattern, line) == Contains(line, pattern)

\* self.pattern.lower() in line.lower()
LiteralSearch(pattern, line) == Contains(Lower(line), Lower(pattern))

\* the test of lines 114-119 and 124-129
LineMatches(pattern, is_regex, line) ==
    IF is_regex THEN RegexSearch(pattern, line) ELSE LiteralSearch(pattern, line)

\* f"{line_number}: {line}"
FormatRecord(line_number, line) == IntToStr(line_number) \o <<":", " ">> \o line

\* ------------------------------------------------------------ file system
\* The paths the user may type: "" (nothing selected), the file "f", the
\* directory "d" and "x", which does not exist.
Paths == {"", "f", "d", "x"}
PathExists(path) == path \in {"f", "d"}
IsDir(path) == path = "d"

\* the immediate entries of directory "d"
DirEntries == {[name |-> "b.log", ext |-> "log"],
               [name |-> "a.txt", ext |-> "txt"],
               [name |-> "c.dat", ext |-> "dat"]}
FileNames == {"f", "b.log", "a.txt"}

\* all texts InitScan draws from
Texts == StringsUpTo(Alphabet, MaxLen)

\* every enumeration of a finite set as a sequence (scandir order is not
\* specified)
Orderings(S) ==
    {q \in [1..Cardinality(S) -> S] : \A i, j \in 1..Cardinality(S) : i # j => q[i] # q[j]}

\* list(log_dir.glob("*." + ext)), in any order the directory yields
GlobOrders(ext) == Orderings({e.name : e \in {d \in DirEntries : d.ext = ext}})

\* ------------------------------------------------------------ state
VARIABLES
    files,            \* file name -> text of the file
    chunk_size,       \* chunk_size of _analyze_file
    faults_left,      \* I/O faults the environment may still inject
    initialized,      \* BaseScreen._initialized
    status_label,     \* text of status_label
    results_text,     \* text of results_text
    search_enabled,   \* search_button.isEnabled()
    cancel_enabled,   \* cancel_button.isEnabled()
    analyzer_thread,  \* _analyzer_thread: -1 no attribute, 0 None, else job id
    gui_pc,           \* "idle", or "wait" inside QThread.wait()
    threads,          \* the LogAnalyzerThread objects, by job id
    event_queue,      \* signals queued to the GUI thread
    emitted,          \* history: every signal emitted, in emission order
    delivered,        \* history: every signal delivered to a slot, in order
    heap,             \* the dict objects of a Settings object, by object id
    settings,         \* Settings._settings: the id of a dict object
    settings_call,    \* history: the last call of Settings.set or Settings.reset
    plugins,          \* PluginManager._plugins: plugin name -> instance
    enabled_plugins,  \* PluginManager._enabled_plugins
    plugin_call,      \* history: the last call of a PluginManager method
    setup_ui_calls,   \* history: how many times setup_ui was called
    load_data_calls   \* history: how many times load_data was called

vars == <<files, chunk_size, faults_left, initialized, status_label, results_text,
          search_enabled, cancel_enabled, analyzer_thread, gui_pc, threads,
          event_queue, emitted, delivered, heap, settings, settings_call,
          plugins, enabled_plugins, plugin_call, setup_ui_calls, load_data_calls>>

\* what neither the screen nor the worker thread changes
settings_vars == <<heap, settings, settings_call>>
plugin_vars == <<plugins, enabled_plugins, plugin_call>>
call_vars == <<setup_ui_calls, load_data_calls>>
env_vars == <<files, chunk_size, settings_vars, plugin_vars, call_vars>>
widget_vars == <<status_label, results_text, search_enabled, cancel_enabled>>
signal_vars == <<event_queue, emitted, delivered>>
screen_vars == <<files, chunk_size, faults_left, initialized, widget_vars, analyzer_thread,
                 gui_pc, threads, signal_vars, call_vars>>

Jobs == 1..Len(threads)

\* ------------------------------------------------------------ texts shown
StatusReady == <<"Ready">>
StatusAnalyzing == <<"Analyzing...">>
StatusEmptyInput == <<"Error: Please select a file/directory and enter a pattern">>
StatusNoPath == <<"Error: Path does not exist">>
StatusCancelled == <<"Analysis cancelled">>
StatusNoMatches == <<"Analysis complete: No matches found">>
StatusComplete(n) == <<"Analysis complete: ">> \o IntToStr(n) \o <<" matches found">>
ProgressFile == <<"Processing file...">>
ProgressNamed(name) == <<"Processing ", name, "...">>
ProgressError == <<"Error: ", "OSError">>

TextNoResultsYet == <<"No results yet. Select a log file and search pattern.">>
TextSearching == <<"Searching...", NL>>
TextNoMatches == <<"No matches found">>

\* TextArea.appendText: QPlainTextEdit.appendPlainText starts a new paragraph
AppendText(text, more) == IF text = <<>> THEN more ELSE text \o <<NL>> \o more

\* mutant of FoundText: the remainder line is added from the cap on, not
\* from one past it
FoundTextFromCap(results) ==
    LET head == <<"Found ">> \o IntToStr(Len(results)) \o <<" matches:", NL, NL>>
        body == AppendText(head, Join(Take(results, DisplayCap)))
    IN  IF Len(results) >= DisplayCap
        THEN AppendText(body, <<NL, NL, "... and ">> \o IntToStr(Len(results) - DisplayCap)
                                  \o <<" more matches">>)
        ELSE body

\* the text _on_analysis_finished builds for a non-empty result list
FoundText(results) ==
    LET head == <<"Found ">> \o IntToStr(Len(results)) \o <<" matches:", NL, NL>>
        body == AppendText(head, Join(Take(results, DisplayCap)))
    IN  IF Len(results) > DisplayCap
        THEN AppendText(body, <<NL, NL, "... and ">> \o IntToStr(Len(results) - DisplayCap)
                                  \o <<" more matches">>)
        ELSE body

\* ------------------------------------------------------------ signals
ProgressSignal(job, message) ==
    [job |-> job, signal |-> "progress", message |-> message, results |-> <<>>]
FinishedSignal(job, results) ==
    [job |-> job, signal |-> "finished", message |-> <<>>, results |-> results]

\* mutant of Posted: the newest call is run first
PostedInFront(queue, sig) == <<sig>> \o queue

\* the GUI thread's event queue after a queued slot call is posted to it
Posted(queue, sig) == Append(queue, sig)

\* signal.emit(...) from the worker: a queued call to the connected slot
Emit(sig) ==
    /\ event_queue' = Posted(event_queue, sig)
    /\ emitted' = Append(emitted, sig)
    /\ UNCHANGED delivered

\* ------------------------------------------------------------ screen
\* The state after LogAnalyticsScreen() and an unscanned file system.
InitScreen ==
    /\ initialized = FALSE
    /\ status_label = <<>>
    /\ results_text = <<>>
    /\ search_enabled = FALSE
    /\ cancel_enabled = FALSE
    /\ analyzer_thread = -1
    /\ gui_pc = "idle"
    /\ threads = <<>>
    /\ event_queue = <<>>
    /\ emitted = <<>>
    /\ delivered = <<>>
    /\ setup_ui_calls = 0
    /\ load_data_calls = 0

\* mutant of initialize: _initialized is not tested
initialize_unguarded ==
    /\ gui_pc = "idle"
    /\ setup_ui_calls < MaxCalls
    /\ load_data_calls < MaxCalls
    /\ status_label' = StatusReady
    /\ search_enabled' = TRUE
    /\ cancel_enabled' = FALSE
    /\ analyzer_thread' = 0
    /\ results_text' = TextNoResultsYet
    /\ initialized' = TRUE
    /\ setup_ui_calls' = setup_ui_calls + 1
    /\ load_data_calls' = load_data_calls + 1
    /\ UNCHANGED <<files, chunk_size, settings_vars, plugin_vars, faults_left, gui_pc,
                   threads, signal_vars>>

\* BaseScreen.initialize with LogAnalyticsScreen.setup_ui and load_data
initialize ==
    /\ gui_pc = "idle"
    /\ IF ~initialized
       THEN /\ status_label' = StatusReady
            /\ search_enabled' = TRUE
            /\ cancel_enabled' = FALSE
            /\ analyzer_thread' = 0
            /\ results_text' = TextNoResultsYet
            /\ initialized' = TRUE
            /\ setup_ui_calls' = setup_ui_calls + 1
            /\ load_data_calls' = load_data_calls + 1
       ELSE UNCHANGED <<widget_vars, analyzer_thread, initialized, call_vars>>
    /\ UNCHANGED <<files, chunk_size, settings_vars, plugin_vars, faults_left, gui_pc,
                   threads, signal_vars>>

\* BaseScreen.refresh with LogAnalyticsScreen.load_data, as the Refresh
\* action of the main window calls it
refresh ==
    /\ gui_pc = "idle"
    /\ IF initialized
       THEN /\ load_data_calls < MaxCalls
            /\ results_text' = TextNoResultsYet
            /\ load_data_calls' = load_data_calls + 1
       ELSE UNCHANGED <<results_text, load_data_calls>>
    /\ UNCHANGED <<files, chunk_size, settings_vars, plugin_vars, faults_left,
                   initialized, status_label, search_enabled, cancel_enabled,
                   analyzer_thread, gui_pc, threads, signal_vars, setup_ui_calls>>

\* LogAnalyzerThread.__init__ followed by start()
NewThread(file_path, pattern, is_regex, is_directory) ==
    [file_path |-> file_path, pattern |-> pattern, is_regex |-> is_regex,
     is_directory |-> is_directory, running |-> TRUE, pc |-> "run",
     results |-> <<>>, log_files |-> <<>>, fi |-> 1,
     cur |-> "", pos |-> 0, buffer |-> <<>>, line_number |-> 0,
     file_results |-> <<>>, at_eof |-> FALSE, seen |-> <<>>, scanned |-> <<>>]

\* mutant of InputError: the existence check of line 320 is missing
InputErrorWithoutExists(path, pattern) ==
    IF path = "" \/ pattern = <<>> THEN StatusEmptyInput ELSE <<>>

\* the input checks of _on_search_clicked (lines 316 and 320)
InputError(path, pattern) ==
    IF path = "" \/ pattern = <<>> THEN StatusEmptyInput
    ELSE IF ~PathExists(path) THEN StatusNoPath
    ELSE <<>>

\* LogAnalyticsScreen._on_search_clicked with the texts of path_input and
\* pattern_input and the state of regex_checkbox
_on_search_clicked(path, pattern, is_regex) ==
    /\ gui_pc = "idle"
    /\ initialized
    /\ search_enabled
    /\ IF InputError(path, pattern) # <<>>
       THEN /\ status_label' = InputError(path, pattern)
            /\ UNCHANGED <<results_text, search_enabled, cancel_enabled,
                           analyzer_thread, threads>>
       ELSE /\ Len(threads) < MaxJobs
            /\ threads' = Append(threads, NewThread(path, pattern, is_regex, IsDir(path)))
            /\ analyzer_thread' = Len(threads) + 1
            /\ search_enabled' = FALSE
            /\ cancel_enabled' = TRUE
            /\ status_label' = StatusAnalyzing
            /\ results_text' = TextSearching
    /\ UNCHANGED <<env_vars, faults_left, initialized, gui_pc, signal_vars>>

\* ------------------------------------------------------------ worker
\* outcomes of one I/O call: it may fail while the environment has faults left
IoOutcomes == IF faults_left > 0 THEN {"ok", "fail"} ELSE {"ok"}
Charge(outcome) == faults_left' = IF outcome = "fail" THEN faults_left - 1 ELSE faults_left

\* f.read(chunk_size) at file position pos
ReadChunk(text, pos, size) == SubSeq(text, pos + 1, Min(pos + size, Len(text)))

\* mutant of CarryOf: the carry is taken from the chunk alone
CarryOfChunkOnly(buffer, chunk) == Last(Split(chunk))

\* mutant of CarryOf: the buffer is never cut back to its last line
CarryOfWholeBuffer(buffer, chunk) == buffer \o chunk

\* buffer += chunk; lines = buffer.split('\n'); buffer = lines[-1]
CarryOf(buffer, chunk) == Last(Split(buffer \o chunk))

\* buffer += chunk; lines = buffer.split('\n'); lines = lines[:-1]
CompleteLines(buffer, chunk) == AllButLast(Split(buffer \o chunk))

\* mutant of ScanLine: line_number is not advanced for a line that does
\* not match
ScanLineCountingMatches(th, line) ==
    LET hit == LineMatches(th.pattern, th.is_regex, line)
        n == IF hit THEN th.line_number + 1 ELSE th.line_number
    IN  [th EXCEPT !.line_number = n,
                   !.seen = Append(@, <<n, line>>),
                   !.file_results = IF hit THEN Append(@, FormatRecord(n, line)) ELSE @]

\* one pass of the body of "for line in lines" (lines 112-119), also the
\* body of "Process last line" (lines 123-129)
ScanLine(th, line) ==
    LET n == th.line_number + 1
    IN  [th EXCEPT !.line_number = n,
                   !.seen = Append(@, <<n, line>>),
                   !.file_results = IF LineMatches(th.pattern, th.is_regex, line)
                                    THEN Append(@, FormatRecord(n, line))
                                    ELSE @]

\* for line in lines: ...
RECURSIVE ScanLines(_, _)
ScanLines(th, lines) ==
    IF lines = <<>> THEN th ELSE ScanLines(ScanLine(th, Head(lines)), Tail(lines))

\* one pass of the body of "while self._running" with a non-empty chunk
\* (lines 104-119)
ProcessChunk(th, chunk) ==
    LET scanned_th == ScanLines(th, CompleteLines(th.buffer, chunk))
    IN  [scanned_th EXCEPT !.buffer = CarryOf(th.buffer, chunk),
                           !.pos = th.pos + Len(chunk)]

\* the end of one call of _analyze_file: its locals are gone, and the history
\* scanned records which file it was, how far it was read and why the scan
\* ended: "eof", "stopped", "error" (open or read failed) or "pattern"
\* (re.error), and found the list it returned
Returned(th, how) ==
    [th EXCEPT !.scanned = Append(@, [name |-> th.cur, pos |-> th.pos, how |-> how,
                                      found |-> th.file_results]),
               !.pos = 0, !.buffer = <<>>, !.line_number = 0,
               !.file_results = <<>>, !.at_eof = FALSE]

\* mutant of Continue: a file's matches are put in front of the earlier ones
ContinuePrepending(th, file_results) ==
    IF th.is_directory
    THEN [th EXCEPT !.results = file_results \o @, !.fi = @ + 1, !.pc = "file_loop"]
    ELSE [th EXCEPT !.results = file_results, !.pc = "emit_finished"]

\* what run() does with the value of _analyze_file: results.extend(...) and
\* the next pass of the for loop (line 64), or results = ... and on to
\* finished.emit (line 68)
Continue(th, file_results) ==
    IF th.is_directory
    THEN [th EXCEPT !.results = @ \o file_results, !.fi = @ + 1, !.pc = "file_loop"]
    ELSE [th EXCEPT !.results = file_results, !.pc = "emit_finished"]

\* mutant of ReturnFile: an I/O error is not caught in _analyze_file, it
\* reaches the except clause of run()
ReturnFileRaising(th, how) ==
    IF how = "error" THEN [Returned(th, how) EXCEPT !.pc = "exit"]
    ELSE Continue(Returned(th, how), th.file_results)

\* "return results" of _analyze_file (line 134), after the except clause of
\* line 131 when an exception ended the scan, and run()'s use of the value
ReturnFile(th, how) == Continue(Returned(th, how), th.file_results)

\* _analyze_file up to the first pass of the chunk loop (lines 86-97):
\* fresh locals, re.compile in regex mode, open
StartFile(th, name, opened) ==
    LET fresh == [th EXCEPT !.cur = name, !.pos = 0, !.buffer = <<>>,
                            !.line_number = 0, !.file_results = <<>>,
                            !.at_eof = FALSE, !.seen = <<>>]
    IN  IF th.is_regex /\ ~RegexCompiles(th.pattern) THEN ReturnFile(fresh, "pattern")
        ELSE IF opened = "fail" THEN ReturnFile(fresh, "error")
        ELSE [fresh EXCEPT !.pc = "chunk_loop"]

\* whether StartFile reaches open()
ReachesOpen(th) == ~(th.is_regex /\ ~RegexCompiles(th.pattern))

\* run() of a single-file job up to the chunk loop (lines 51-53, 66-68)
run_single_file(t) ==
    /\ t \in Jobs
    /\ threads[t].pc = "run"
    /\ ~threads[t].is_directory
    /\ \E opened \in IoOutcomes :
          /\ (opened = "fail" => ReachesOpen(threads[t]))
          /\ Charge(opened)
          /\ threads' = [threads EXCEPT ![t] = StartFile(@, @.file_path, opened)]
    /\ Emit(ProgressSignal(t, ProgressFile))
    /\ UNCHANGED <<env_vars, initialized, widget_vars, analyzer_thread, gui_pc>>

\* run() of a directory job up to the for loop (lines 51-57); the enumeration
\* may raise, which the except clause of run() reports (lines 72-74)
run_directory(t) ==
    /\ t \in Jobs
    /\ threads[t].pc = "run"
    /\ threads[t].is_directory
    /\ \E listed \in IoOutcomes :
          /\ Charge(listed)
          /\ IF listed = "fail"
             THEN /\ threads' = [threads EXCEPT ![t].pc = "exit"]
                  /\ Emit(ProgressSignal(t, ProgressError))
             ELSE /\ \E logs \in GlobOrders("log"), txts \in GlobOrders("txt") :
                        threads' = [threads EXCEPT ![t].log_files = logs \o txts,
                                                   ![t].pc = "file_loop"]
                  /\ UNCHANGED signal_vars
    /\ UNCHANGED <<env_vars, initialized, widget_vars, analyzer_thread, gui_pc>>

\* mutant of file_loop: the flag is not tested between two files
file_loop_unchecked(t) ==
    LET th == threads[t]
    IN  /\ t \in Jobs
        /\ th.pc = "file_loop"
        /\ IF th.fi > Len(th.log_files)
           THEN /\ threads' = [threads EXCEPT ![t].pc = "emit_finished"]
                /\ UNCHANGED <<faults_left, signal_vars>>
           ELSE /\ \E opened \in IoOutcomes :
                      /\ (opened = "fail" => ReachesOpen(th))
                      /\ Charge(opened)
                      /\ threads' = [threads EXCEPT
                                        ![t] = StartFile(th, th.log_files[th.fi], opened)]
                /\ Emit(ProgressSignal(t, ProgressNamed(th.log_files[th.fi])))
        /\ UNCHANGED <<env_vars, initialized, widget_vars, analyzer_thread, gui_pc>>

\* one pass of "for log_file in log_files" up to the chunk loop of the file
\* (lines 59-63), or the end of the loop
file_loop(t) ==
    LET th == threads[t]
    IN  /\ t \in Jobs
        /\ th.pc = "file_loop"
        /\ IF th.fi > Len(th.log_files) \/ ~th.running
           THEN /\ threads' = [threads EXCEPT ![t].pc = "emit_finished"]
                /\ UNCHANGED <<faults_left, signal_vars>>
           ELSE /\ \E opened \in IoOutcomes :
                      /\ (opened = "fail" => ReachesOpen(th))
                      /\ Charge(opened)
                      /\ threads' = [threads EXCEPT
                                        ![t] = StartFile(th, th.log_files[th.fi], opened)]
                /\ Emit(ProgressSignal(t, ProgressNamed(th.log_files[th.fi])))
        /\ UNCHANGED <<env_vars, initialized, widget_vars, analyzer_thread, gui_pc>>

\* mutant of chunk_loop: the loop is "while True" and polls for more text at
\* the end of the file
chunk_loop_following(t) ==
    LET th == threads[t]
        chunk == ReadChunk(files[th.cur], th.pos, chunk_size)
    IN  /\ t \in Jobs
        /\ th.pc = "chunk_loop"
        /\ \E read \in IoOutcomes :
              /\ Charge(read)
              /\ threads' = [threads EXCEPT ![t] =
                    IF read = "fail" THEN ReturnFile(th, "error")
                    ELSE IF chunk = <<>> THEN th
                    ELSE ProcessChunk(th, chunk)]
        /\ UNCHANGED <<env_vars, initialized, widget_vars, analyzer_thread, gui_pc,
                       signal_vars>>

\* one test of "while self._running" and the pass it admits (lines 99-119)
chunk_loop(t) ==
    LET th == threads[t]
        chunk == ReadChunk(files[th.cur], th.pos, chunk_size)
    IN  /\ t \in Jobs
        /\ th.pc = "chunk_loop"
        /\ IF ~th.running
           THEN /\ threads' = [threads EXCEPT ![t].pc = "last_line"]
                /\ UNCHANGED faults_left
           ELSE \E read \in IoOutcomes :
                   /\ Charge(read)
                   /\ threads' = [threads EXCEPT ![t] =
                         IF read = "fail" THEN ReturnFile(th, "error")
                         ELSE IF chunk = <<>>
                         THEN [th EXCEPT !.pc = "last_line", !.at_eof = TRUE]
                         ELSE ProcessChunk(th, chunk)]
        /\ UNCHANGED <<env_vars, initialized, widget_vars, analyzer_thread, gui_pc,
                       signal_vars>>

\* mutant of last_line: the flag is not tested before the last line is
\* processed
last_line_unguarded(t) ==
    LET th == threads[t]
    IN  /\ t \in Jobs
        /\ th.pc = "last_line"
        /\ threads' = [threads EXCEPT ![t] =
              IF th.buffer # <<>>
              THEN ReturnFile(ScanLine(th, th.buffer), "eof")
              ELSE ReturnFile(th, IF th.at_eof /\ th.buffer = <<>> THEN "eof"
                                  ELSE "stopped")]
        /\ UNCHANGED <<env_vars, faults_left, initialized, widget_vars, analyzer_thread,
                       gui_pc, signal_vars>>

\* "Process last line" and the return of _analyze_file (lines 121-134)
last_line(t) ==
    LET th == threads[t]
    IN  /\ t \in Jobs
        /\ th.pc = "last_line"
        /\ threads' = [threads EXCEPT ![t] =
              IF th.buffer # <<>> /\ th.running
              THEN ReturnFile(ScanLine(th, th.buffer), "eof")
              ELSE ReturnFile(th, IF th.at_eof /\ th.buffer = <<>> THEN "eof"
                                  ELSE "stopped")]
        /\ UNCHANGED <<env_vars, faults_left, initialized, widget_vars, analyzer_thread,
                       gui_pc, signal_vars>>

\* self.finished.emit(results) (line 70)
emit_finished(t) ==
    /\ t \in Jobs
    /\ threads[t].pc = "emit_finished"
    /\ threads' = [threads EXCEPT ![t].pc = "exit"]
    /\ Emit(FinishedSignal(t, threads[t].results))
    /\ UNCHANGED <<env_vars, faults_left, initialized, widget_vars, analyzer_thread,
                   gui_pc>>

\* run() returns and the thread ends: isRunning() is False from here on
thread_exit(t) ==
    /\ t \in Jobs
    /\ threads[t].pc = "exit"
    /\ threads' = [threads EXCEPT ![t].pc = "done"]
    /\ UNCHANGED <<env_vars, faults_left, initialized, widget_vars, analyzer_thread,
                   gui_pc, signal_vars>>

\* QThread.isRunning()
isRunning(t) == threads[t].pc # "done"

\* ------------------------------------------------------------ GUI thread
\* LogAnalyticsScreen._on_cancel_clicked up to the return of wait()
_on_cancel_clicked ==
    /\ gui_pc = "idle"
    /\ initialized
    /\ cancel_enabled
    /\ IF analyzer_thread > 0 /\ isRunning(analyzer_thread)
       THEN /\ threads' = [threads EXCEPT ![analyzer_thread].running = FALSE]
            /\ gui_pc' = "wait"
       ELSE UNCHANGED <<threads, gui_pc>>
    /\ UNCHANGED <<env_vars, faults_left, initialized, widget_vars, analyzer_thread,
                   signal_vars>>

\* wait() returns in _on_cancel_clicked; lines 345-347
cancel_wait_return ==
    /\ gui_pc = "wait"
    /\ ~isRunning(analyzer_thread)
    /\ status_label' = StatusCancelled
    /\ search_enabled' = TRUE
    /\ cancel_enabled' = FALSE
    /\ gui_pc' = "idle"
    /\ UNCHANGED <<env_vars, faults_left, initialized, results_text, analyzer_thread,
                   threads, signal_vars>>

\* LogAnalyticsScreen.cleanup up to the return of wait(), as
\* MainWindow.closeEvent calls it.  Before setup_ui has run the screen has no
\* attribute _analyzer_thread and line 384 raises AttributeError; otherwise
\* the window is closed when cleanup has returned.
cleanup ==
    /\ gui_pc = "idle"
    /\ IF analyzer_thread = -1
       THEN /\ gui_pc' = "raised"
            /\ UNCHANGED threads
       ELSE IF analyzer_thread > 0 /\ isRunning(analyzer_thread)
       THEN /\ threads' = [threads EXCEPT ![analyzer_thread].running = FALSE]
            /\ gui_pc' = "cleanup_wait"
       ELSE /\ gui_pc' = "closed"
            /\ UNCHANGED threads
    /\ UNCHANGED <<env_vars, faults_left, initialized, widget_vars, analyzer_thread,
                   signal_vars>>

\* wait() returns in cleanup; lines 386-387
cleanup_wait_return ==
    /\ gui_pc = "cleanup_wait"
    /\ ~isRunning(analyzer_thread)
    /\ gui_pc' = "closed"
    /\ UNCHANGED <<env_vars, faults_left, initialized, widget_vars, analyzer_thread,
                   threads, signal_vars>>

\* LogAnalyticsScreen._on_analysis_progress
_on_analysis_progress(message) ==
    /\ status_label' = message
    /\ UNCHANGED <<results_text, search_enabled, cancel_enabled>>

\* mutant of _on_analysis_finished: the branch for an empty list is missing
_on_analysis_finished_counting(results) ==
    /\ search_enabled' = TRUE
    /\ cancel_enabled' = FALSE
    /\ results_text' = FoundText(results)
    /\ status_label' = StatusComplete(Len(results))

\* LogAnalyticsScreen._on_analysis_finished
_on_analysis_finished(results) ==
    /\ search_enabled' = TRUE
    /\ cancel_enabled' = FALSE
    /\ IF results # <<>>
       THEN /\ results_text' = FoundText(results)
            /\ status_label' = StatusComplete(Len(results))
       ELSE /\ results_text' = TextNoMatches
            /\ status_label' = StatusNoMatches

\* the event loop of the GUI thread runs the oldest queued slot call
deliver_event ==
    /\ gui_pc = "idle"
    /\ event_queue # <<>>
    /\ LET ev == Head(event_queue)
       IN  /\ IF ev.signal = "progress"
              THEN _on_analysis_progress(ev.message)
              ELSE _on_analysis_finished(ev.results)
           /\ delivered' = Append(delivered, ev)
    /\ event_queue' = Tail(event_queue)
    /\ UNCHANGED <<env_vars, faults_left, initialized, analyzer_thread, gui_pc, threads,
                   emitted>>

\* ------------------------------------------------------------ settings
\* Settings (src/src/utils/settings.py).  A key is a string of words and
\* dots; a value is a record: ref > 0 names a dict object of the heap, and
\* ref = 0 is the scalar val (numbers, booleans and lists written as strings).
\* The keys of a dict object are the segments key.split('.') yields.
Scalar(val) == [ref |-> 0, val |-> val]
DictRef(id) == [ref |-> id, val |-> ""]
None == Scalar("None")

\* largest number of dict objects one behaviour creates
MaxObjects == 6

\* key.split('.')
RECURSIVE KeySplitFrom(_, _, _)
KeySplitFrom(key, i, cur) ==
    IF i > Len(key) THEN <<cur>>
    ELSE IF key[i] = "." THEN <<cur>> \o KeySplitFrom(key, i + 1, <<>>)
    ELSE KeySplitFrom(key, i + 1, Append(cur, key[i]))
KeySplit(key) == KeySplitFrom(key, 1, <<>>)

\* the dict d after d[k] = v
Store(d, k, v) == [x \in (DOMAIN d) \cup {k} |-> IF x = k THEN v ELSE d[x]]

\* a dict object from its items
DictOf(items) == [k \in {<<it[1]>> : it \in items} |->
                    (CHOOSE it \in items : <<it[1]>> = k)[2]]

\* self._defaults (lines 33-47): object 1, with its "window" as object 2 and
\* its "database" as object 3
defaults == 1
DefaultsHeap ==
    << DictOf({<<"window", DictRef(2)>>, <<"theme", Scalar("light")>>,
               <<"log_level", Scalar("INFO")>>, <<"plugins_enabled", Scalar("True")>>,
               <<"recent_files", Scalar("[]")>>, <<"database", DictRef(3)>>}),
       DictOf({<<"width", Scalar("1280")>>, <<"height", Scalar("720")>>,
               <<"maximized", Scalar("False")>>}),
       DictOf({<<"type", Scalar("sqlite")>>, <<"path", Scalar("")>>}) >>

\* the heap after dict.copy() of object id: a new object with the same items
copy(h, id) == Append(h, h[id])

\* the keys the caller passes to set
SetKeys == {<<"theme">>, <<"window">>, <<"window", ".", "width">>, <<"custom_key">>,
            <<"nested", ".", "key">>, <<"theme", ".", "key">>}
\* the values the caller passes to set
SetValues == {"custom_value"}
\* the keys the caller passes to get
GetKeys == SetKeys \cup {<<"nested">>, <<"window", ".", "height">>, <<"log_level">>,
                         <<"database", ".", "type">>, <<"window", ".", "width", ".", "key">>}

\* the loop of get (lines 88-92) from value on
RECURSIVE Walk(_, _, _)
Walk(h, value, keys) ==
    IF keys = <<>> THEN value
    ELSE IF value.ref > 0 /\ Head(keys) \in DOMAIN h[value.ref]
    THEN Walk(h, h[value.ref][Head(keys)], Tail(keys))
    ELSE None

\* Settings.get(key) in a heap where _settings is object root
GetIn(h, root, key) == Walk(h, DictRef(root), KeySplit(key))

\* Settings.get(key)
get(key) == GetIn(heap, settings, key)

\* the loop of set from dict object id on (lines 107-110) and the store of
\* line 112; going through a value that is no dict raises TypeError, before
\* anything was stored
RECURSIVE SetIn(_, _, _, _)
SetIn(h, id, keys, value) ==
    IF Len(keys) = 1
    THEN [heap |-> [h EXCEPT ![id] = Store(@, keys[1], Scalar(value))], raised |-> FALSE]
    ELSE IF Head(keys) \notin DOMAIN h[id]
    THEN LET new == Len(h) + 1
             added == Append([h EXCEPT ![id] = Store(@, Head(keys), DictRef(new))], <<>>)
         IN  SetIn(added, new, Tail(keys), value)
    ELSE IF h[id][Head(keys)].ref > 0
    THEN SetIn(h, h[id][Head(keys)].ref, Tail(keys), value)
    ELSE [heap |-> h, raised |-> TRUE]

\* what the history keeps of a call: what get returned before it
Called(op, key, value, raised) ==
    [op |-> op, key |-> key, value |-> value, raised |-> raised,
     before |-> [k \in GetKeys |-> get(k)]]

\* Settings.set(key, value)
set(key, value) ==
    LET after == SetIn(heap, settings, KeySplit(key), value)
    IN  /\ Len(after.heap) <= MaxObjects
        /\ heap' = after.heap
        /\ settings_call' = Called("set", key, value, after.raised)
        /\ UNCHANGED <<settings, screen_vars, plugin_vars>>

\* Settings.reset()
reset ==
    /\ Len(heap) < MaxObjects
    /\ heap' = copy(heap, defaults)
    /\ settings' = Len(heap) + 1
    /\ settings_call' = Called("reset", <<>>, "", FALSE)
    /\ UNCHANGED <<screen_vars, plugin_vars>>

\* Settings(settings_file) when the file does not exist: load() takes the
\* branch of line 58
InitSettings ==
    /\ heap = copy(DefaultsHeap, defaults)
    /\ settings = Len(DefaultsHeap) + 1
    /\ settings_call = [op |-> "init", key |-> <<>>, value |-> "", raised |-> FALSE,
                        before |-> [k \in GetKeys |-> None]]

\* ------------------------------------------------------------ plugins
\* PluginManager (src/src/plugins/plugin_manager.py).  A plugin name is the
\* number of a file of the plugin directory; an instance is known by whether
\* its initialize has completed.
MaxPlugins == 3
PluginNames == 1..MaxPlugins

\* plugin_class()
NewPlugin == [initialized |-> FALSE]

\* How load_plugin may end: "fail" before line 98 (no file, no spec, no
\* plugin class, or an exception), "late" with an exception of line 99,
\* after the instance was stored, or "ok".
LoadOutcomes == {"fail", "late", "ok"}

\* _plugins after load_plugin(plugin_name) ended with outcome
Loaded(ps, plugin_name, outcome) ==
    IF outcome = "fail" THEN ps ELSE Store(ps, plugin_name, NewPlugin)

\* del d[k]
Without(d, k) == [x \in (DOMAIN d) \ {k} |-> d[x]]

\* what the history keeps of a call: its result and the two sets before it
PluginCalled(op, plugin_name, result) ==
    [op |-> op, name |-> plugin_name, result |-> result,
     loaded |-> DOMAIN plugins, enabled |-> enabled_plugins]

\* PluginManager.load_plugin
load_plugin(plugin_name) ==
    \E outcome \in LoadOutcomes :
        /\ plugins' = Loaded(plugins, plugin_name, outcome)
        /\ plugin_call' = PluginCalled("load_plugin", plugin_name, outcome = "ok")
        /\ UNCHANGED <<enabled_plugins, screen_vars, settings_vars>>

\* mutant of unload_plugin: line 123 is missing
unload_plugin_keeping_enabled(plugin_name) ==
    IF plugin_name \notin DOMAIN plugins
    THEN /\ plugin_call' = PluginCalled("unload_plugin", plugin_name, FALSE)
         /\ UNCHANGED <<plugins, enabled_plugins, screen_vars, settings_vars>>
    ELSE \E cleanup_raises \in BOOLEAN :
            /\ plugins' = IF cleanup_raises THEN plugins ELSE Without(plugins, plugin_name)
            /\ plugin_call' = PluginCalled("unload_plugin", plugin_name, ~cleanup_raises)
            /\ UNCHANGED <<enabled_plugins, screen_vars, settings_vars>>

\* PluginManager.unload_plugin; plugin.cleanup() may raise
unload_plugin(plugin_name) ==
    IF plugin_name \notin DOMAIN plugins
    THEN /\ plugin_call' = PluginCalled("unload_plugin", plugin_name, FALSE)
         /\ UNCHANGED <<plugins, enabled_plugins, screen_vars, settings_vars>>
    ELSE \E cleanup_raises \in BOOLEAN :
            /\ plugins' = IF cleanup_raises THEN plugins ELSE Without(plugins, plugin_name)
            /\ enabled_plugins' = IF cleanup_raises THEN enabled_plugins
                                   ELSE enabled_plugins \ {plugin_name}
            /\ plugin_call' = PluginCalled("unload_plugin", plugin_name, ~cleanup_raises)
            /\ UNCHANGED <<screen_vars, settings_vars>>

\* PluginManager.enable_plugin; it loads a plugin that is not loaded, and
\* plugin.initialize(app_context) may raise
enable_plugin(plugin_name) ==
    \E outcome \in LoadOutcomes, initialize_raises \in BOOLEAN :
        LET present == plugin_name \in DOMAIN plugins
            loaded == IF present THEN plugins ELSE Loaded(plugins, plugin_name, outcome)
        IN  IF ~present /\ outcome # "ok"
            THEN /\ plugins' = loaded
                 /\ plugin_call' = PluginCalled("enable_plugin", plugin_name, FALSE)
                 /\ UNCHANGED <<enabled_plugins, screen_vars, settings_vars>>
            ELSE IF initialize_raises
            THEN /\ plugins' = loaded
                 /\ plugin_call' = PluginCalled("enable_plugin", plugin_name, FALSE)
                 /\ UNCHANGED <<enabled_plugins, screen_vars, settings_vars>>
            ELSE /\ plugins' = [loaded EXCEPT ![plugin_name].initialized = TRUE]
                 /\ enabled_plugins' = enabled_plugins \cup {plugin_name}
                 /\ plugin_call' = PluginCalled("enable_plugin", plugin_name, TRUE)
                 /\ UNCHANGED <<screen_vars, settings_vars>>

\* PluginManager.disable_plugin
disable_plugin(plugin_name) ==
    /\ enabled_plugins' = enabled_plugins \ {plugin_name}
    /\ plugin_call' = PluginCalled("disable_plugin", plugin_name,
                                   plugin_name \in enabled_plugins)
    /\ UNCHANGED <<plugins, screen_vars, settings_vars>>

\* PluginManager.get_enabled_plugins, as the names of the instances it lists
get_enabled_plugins == {name \in enabled_plugins : name \in DOMAIN plugins}

\* PluginManager()
InitPlugins ==
    /\ plugins = <<>>
    /\ enabled_plugins = {}
    /\ plugin_call = [op |-> "init", name |-> 0, result |-> FALSE,
                      loaded |-> {}, enabled |-> {}]

\* ------------------------------------------------------------ specifications
\* the files of the screen specification
DemoFiles ==
    [name \in FileNames |->
        CASE name = "f"     -> <<"B", NL, "a">>
          [] name = "b.log" -> <<"B", NL, "B", NL>>
          [] name = "a.txt" -> <<"a", NL, "B">>]

\* what the user types as pattern in the screen specification
DemoPatterns == {<<>>, <<"b">>, <<"(">>}

\* The screen after construction, over a fixed file system.
Init ==
    /\ InitSettings
    /\ InitPlugins
    /\ InitScreen
    /\ files = DemoFiles
    /\ chunk_size = DemoChunk
    /\ faults_left = MaxFaults

Next ==
    \/ initialize
    \/ \E path \in Paths, pattern \in DemoPatterns, is_regex \in BOOLEAN :
          _on_search_clicked(path, pattern, is_regex) /\ Len(threads') <= ScreenJobs
    \/ _on_cancel_clicked
    \/ cancel_wait_return
    \/ deliver_event
    \/ \E t \in 1..MaxJobs : run_single_file(t)
    \/ \E t \in 1..MaxJobs : run_directory(t)
    \/ \E t \in 1..MaxJobs : file_loop(t)
    \/ \E t \in 1..MaxJobs : chunk_loop(t)
    \/ \E t \in 1..MaxJobs : last_line(t)
    \/ \E t \in 1..MaxJobs : emit_finished(t)
    \/ \E t \in 1..MaxJobs : thread_exit(t)

Spec == Init /\ [][Next]_vars

\* A single file of any text, scanned at most once with any chunk size and no
\* fault; the user may type any path but the directory.
InitScan ==
    /\ InitSettings
    /\ InitPlugins
    /\ InitScreen
    /\ \E text \in Texts : files = [name \in FileNames |-> text]
    /\ chunk_size \in 1..MaxChunk
    /\ faults_left = 0

NextScan ==
    \/ initialize
    \/ \E path \in Paths \ {"d"}, pattern \in Patterns \cup {<<>>}, is_regex \in BOOLEAN :
          _on_search_clicked(path, pattern, is_regex) /\ Len(threads') <= 1
    \/ _on_cancel_clicked
    \/ cancel_wait_return
    \/ deliver_event
    \/ \E t \in 1..MaxJobs : run_single_file(t)
    \/ \E t \in 1..MaxJobs : chunk_loop(t)
    \/ \E t \in 1..MaxJobs : last_line(t)
    \/ \E t \in 1..MaxJobs : emit_finished(t)
    \/ \E t \in 1..MaxJobs : thread_exit(t)

SpecScan == InitScan /\ [][NextScan]_vars

\* The one-job specification: the screen specification with one job and with
\* the window being closed.
NextOne ==
    \/ initialize
    \/ \E path \in Paths, pattern \in DemoPatterns, is_regex \in BOOLEAN :
          _on_search_clicked(path, pattern, is_regex) /\ Len(threads') <= 1
    \/ _on_cancel_clicked
    \/ cancel_wait_return
    \/ cleanup
    \/ cleanup_wait_return
    \/ deliver_event
    \/ \E t \in 1..MaxJobs : run_single_file(t)
    \/ \E t \in 1..MaxJobs : run_directory(t)
    \/ \E t \in 1..MaxJobs : file_loop(t)
    \/ \E t \in 1..MaxJobs : chunk_loop(t)
    \/ \E t \in 1..MaxJobs : last_line(t)
    \/ \E t \in 1..MaxJobs : emit_finished(t)
    \/ \E t \in 1..MaxJobs : thread_exit(t)

SpecOne == Init /\ [][NextOne]_vars

Fairness ==
    /\ \A t \in 1..MaxJobs :
          /\ WF_vars(run_single_file(t))
          /\ WF_vars(run_directory(t))
          /\ WF_vars(file_loop(t))
          /\ WF_vars(chunk_loop(t))
          /\ WF_vars(last_line(t))
          /\ WF_vars(emit_finished(t))
          /\ WF_vars(thread_exit(t))
    /\ WF_vars(cancel_wait_return)
    /\ WF_vars(cleanup_wait_return)

\* The fair specification: the one-job specification in which a worker
\* thread that can take a step eventually takes it, and the GUI thread
\* eventually resumes when wait() can return.
SpecFair == SpecOne /\ Fairness

\* The live-screen specification: the fair specification in which the event
\* loop of the GUI thread, when idle, eventually runs the oldest queued slot
\* call.
EventLoopFairness == WF_vars(deliver_event)

SpecLive == SpecFair /\ EventLoopFairness

\* The navigation specification: the one-job specification in which the user
\* may also refresh the screen, up to MaxCalls calls of load_data.
NextNav ==
    \/ NextOne
    \/ refresh

SpecNav == Init /\ [][NextNav]_vars

\* The jobs specification: the user searches the file "f" for the literal
\* pattern "b" up to MaxJobs times, may cancel, and may close the window; no
\* I/O call fails.
InitJobs ==
    /\ InitSettings
    /\ InitPlugins
    /\ InitScreen
    /\ files = DemoFiles
    /\ chunk_size = DemoChunk
    /\ faults_left = 0

NextJobs ==
    \/ initialize
    \/ _on_search_clicked("f", <<"b">>, FALSE)
    \/ _on_cancel_clicked
    \/ cancel_wait_return
    \/ cleanup
    \/ cleanup_wait_return
    \/ deliver_event
    \/ \E t \in 1..MaxJobs : run_single_file(t)
    \/ \E t \in 1..MaxJobs : chunk_loop(t)
    \/ \E t \in 1..MaxJobs : last_line(t)
    \/ \E t \in 1..MaxJobs : emit_finished(t)
    \/ \E t \in 1..MaxJobs : thread_exit(t)

SpecJobs == InitJobs /\ [][NextJobs]_vars

\* The settings specification: any calls of set and reset on a Settings
\* object made without a settings file; the screen is not used.
InitSet ==
    /\ InitSettings
    /\ InitPlugins
    /\ InitScreen
    /\ files = DemoFiles
    /\ chunk_size = DemoChunk
    /\ faults_left = 0

NextSet ==
    \/ \E key \in SetKeys, value \in SetValues : set(key, value)
    \/ reset

SpecSet == InitSet /\ [][NextSet]_vars

\* The plugins specification: any calls of the four methods on a
\* PluginManager, over the plugin names 1..MaxPlugins; the screen is not used.
InitPlug ==
    /\ InitSettings
    /\ InitPlugins
    /\ InitScreen
    /\ files = DemoFiles
    /\ chunk_size = DemoChunk
    /\ faults_left = 0

NextPlug ==
    \/ \E plugin_name \in PluginNames : load_plugin(plugin_name)
    \/ \E plugin_name \in PluginNames : unload_plugin(plugin_name)
    \/ \E plugin_name \in PluginNames : enable_plugin(plugin_name)
    \/ \E plugin_name \in PluginNames : disable_plugin(plugin_name)

SpecPlug == InitPlug /\ [][NextPlug]_vars

\* The display specification: a single-file job has scanned, with the code's
\* chunk size, a file of n lines "a" for the literal pattern "a", and is about
\* to emit finished with its n records; n is near 0, near the display cap, or
\* one and a half times the cap.
CapSizes ==
    (0..CapMargin) \cup ((DisplayCap - CapMargin)..(DisplayCap + CapMargin))
       \cup {DisplayCap + DisplayCap \div 2}

\* the text of n lines "a", each ended by a newline
CapFile(n) == [i \in 1..(2 * n) |-> IF i % 2 = 1 THEN "a" ELSE NL]

\* the thread of that job when _analyze_file has returned (line 68)
CapThread(n) ==
    [NewThread("f", <<"a">>, FALSE, FALSE) EXCEPT
        !.pc = "emit_finished",
        !.cur = "f",
        !.results = [i \in 1..n |-> FormatRecord(i, <<"a">>)],
        !.seen = [i \in 1..n |-> <<i, <<"a">>>>],
        !.scanned = <<[name |-> "f", pos |-> 2 * n, how |-> "eof",
                       found |-> [i \in 1..n |-> FormatRecord(i, <<"a">>)]]>>]

InitCap ==
    /\ InitSettings
    /\ InitPlugins
    /\ \E n \in CapSizes :
          /\ files = [name \in FileNames |-> IF name = "f" THEN CapFile(n)
                                             ELSE DemoFiles[name]]
          /\ threads = <<CapThread(n)>>
    /\ chunk_size = ChunkSize
    /\ faults_left = 0
    /\ initialized = TRUE
    /\ status_label = StatusAnalyzing
    /\ results_text = TextSearching
    /\ search_enabled = FALSE
    /\ cancel_enabled = TRUE
    /\ analyzer_thread = 1
    /\ gui_pc = "idle"
    /\ event_queue = <<ProgressSignal(1, ProgressFile)>>
    /\ emitted = <<ProgressSignal(1, ProgressFile)>>
    /\ delivered = <<>>
    /\ setup_ui_calls = 1
    /\ load_data_calls = 1

NextCap ==
    \/ _on_cancel_clicked
    \/ cancel_wait_return
    \/ deliver_event
    \/ \E t \in 1..MaxJobs : emit_finished(t)
    \/ \E t \in 1..MaxJobs : thread_exit(t)

SpecCap == InitCap /\ [][NextCap]_vars

\* ------------------------------------------------------------ reference
\* What a scan is to find, computed from the whole text and not by chunks.

\* the lines of a text: what follows the last newline is a line unless empty
FileLines(text) ==
    LET parts == Split(text)
    IN  IF Last(parts) = <<>> THEN AllButLast(parts) ELSE parts

\* the lines completed by a newline within the first pos characters
LinesWithin(text, pos) == AllButLast(Split(SubSeq(text, 1, pos)))

\* the records "<n>: <text>" of the matching lines, by increasing n
RecordsOf(lines, pattern, is_regex) ==
    LET hits == {n \in 1..Len(lines) : LineMatches(pattern, is_regex, lines[n])}
        nth(i) == CHOOSE n \in hits : Cardinality({m \in hits : m <= n}) = i
    IN  [i \in 1..Cardinality(hits) |-> FormatRecord(nth(i), lines[nth(i)])]

RECURSIVE Flatten(_)
Flatten(lists) == IF lists = <<>> THEN <<>> ELSE Head(lists) \o Flatten(Tail(lists))

IsPrefix(p, q) == Len(p) <= Len(q) /\ SubSeq(q, 1, Len(p)) = p

\* the signals of job t in a history
OfJob(history, t) == SelectSeq(history, LAMBDA sig : sig.job = t)
Finished(history, t) == SelectSeq(history, LAMBDA sig : sig.job = t /\ sig.signal = "finished")

\* run() of job t has ended, or only has to return
Ended(t) == threads[t].pc \in {"exit", "done"}
\* run() of job t went through its except clause
Fatal(t) == \E i \in 1..Len(emitted) : emitted[i] = ProgressSignal(t, ProgressError)
\* the lines the current call of _analyze_file has numbered
LinesSeen(th) == [i \in 1..Len(th.seen) |-> th.seen[i][2]]
\* re.compile did not fail in job t
PatternOk(th) == ~th.is_regex \/ RegexCompiles(th.pattern)

\* ------------------------------------------------------------ claims

\* C1: when the chunk loop of an uncancelled scan has reached the end of the
\* file, the lines split out of the chunks followed by the final carry buffer
\* are exactly the whole text split on newlines, for every text and every
\* chunk size; joining them with newlines gives back the text.
C1_ChunkedSplitIsWholeSplit ==
    \A t \in Jobs :
        LET th == threads[t]
        IN  (th.pc = "last_line" /\ th.at_eof) =>
               /\ LinesSeen(th) \o <<th.buffer>> = Split(files[th.cur])
               /\ Join(LinesSeen(th) \o <<th.buffer>>) = files[th.cur]

\* a line of two characters was put together from chunks of one character
C1_Witness ==
    \E t \in Jobs :
        /\ threads[t].pc = "last_line"
        /\ threads[t].at_eof
        /\ chunk_size = 1
        /\ Len(threads[t].seen) = 1
        /\ Len(threads[t].seen[1][2]) = 2
        /\ threads[t].buffer = <<>>

\* C2: the line numbers a call of _analyze_file assigns are 1, 2, 3, ... in
\* processing order, and when an uncancelled scan of a file that does not end
\* with a newline has returned, the final line got the next number.
C2_LineNumbersSequential ==
    \A t \in Jobs :
        LET th == threads[t]
            parts == Split(files[th.cur])
        IN  /\ \A i \in 1..Len(th.seen) : th.seen[i][1] = i
            /\ th.pc \in {"chunk_loop", "last_line"} => th.line_number = Len(th.seen)
            /\ (/\ th.scanned # <<>>
                /\ Last(th.scanned).how = "eof"
                /\ Last(th.scanned).name = th.cur
                /\ th.pc \in {"emit_finished", "exit", "done"}
                /\ PatternOk(th)
                /\ Last(parts) # <<>>)
               => /\ Len(th.seen) = Len(parts)
                  /\ Last(th.seen) = <<Len(parts), Last(parts)>>

\* a file of two lines without a final newline was scanned to its end
C2_Witness ==
    \E t \in Jobs :
        /\ threads[t].pc = "done"
        /\ threads[t].scanned # <<>>
        /\ Last(threads[t].scanned).how = "eof"
        /\ Len(threads[t].seen) = 2
        /\ threads[t].seen[2] = <<2, <<"a">>>>
        /\ files[threads[t].cur] = <<"B", NL, "a">>

\* C3: a job whose run() has ended has emitted exactly one finished signal,
\* whichever way run() ended.
C3_OneTerminalOnEveryPath ==
    \A t \in Jobs : Ended(t) => Len(Finished(emitted, t)) = 1

\* C4: what the screen has received of a job is a prefix of what the job
\* emitted, in that order, and a finished signal is the last one received.
C4_InOrderTerminalLast ==
    \A t \in Jobs :
        LET got == OfJob(delivered, t)
        IN  /\ IsPrefix(got, OfJob(emitted, t))
            /\ \A i \in 1..Len(got) : got[i].signal = "finished" => i = Len(got)

\* a directory job had two progress messages and its finished signal delivered
C4_Witness ==
    \E t \in Jobs :
        /\ Len(OfJob(delivered, t)) = 3
        /\ OfJob(delivered, t)[3].signal = "finished"
        /\ OfJob(delivered, t)[1].message # OfJob(delivered, t)[2].message

\* C5: once _on_cancel_clicked has stopped the current job and returned, the
\* status is "Analysis cancelled" unless the user's next click reported an
\* input error; no signal of the job has replaced it (stated for the runs in
\* which no I/O call failed).
C5_CancelledStays ==
    \A t \in Jobs :
        (/\ gui_pc = "idle"
         /\ analyzer_thread = t
         /\ ~threads[t].running
         /\ PatternOk(threads[t])
         /\ faults_left = MaxFaults)
           => status_label \in {StatusCancelled, StatusEmptyInput, StatusNoPath}

\* C6: a directory job that was stopped and met no I/O error ends with the
\* matches of the files that were scanned to their end and no others.
C6_OnlyCompleteFiles ==
    \A t \in Jobs :
        LET th == threads[t]
            whole == SelectSeq(th.scanned, LAMBDA e : e.how = "eof")
        IN  (/\ th.is_directory
             /\ ~th.running
             /\ Ended(t)
             /\ \A i \in 1..Len(th.scanned) : th.scanned[i].how \in {"eof", "stopped"})
            => th.results =
                  Flatten([i \in 1..Len(whole) |->
                     RecordsOf(FileLines(files[whole[i].name]), th.pattern, th.is_regex)])

\* what one call of _analyze_file is to return, given how it ended
FileOutcome(th, e) ==
    CASE e.how = "eof"     -> RecordsOf(FileLines(files[e.name]), th.pattern, th.is_regex)
      [] e.how = "error"   -> RecordsOf(LinesWithin(files[e.name], e.pos), th.pattern,
                                        th.is_regex)
      [] e.how = "pattern" -> <<>>
      [] OTHER             -> <<>>

\* C7: when run() of a job that was never stopped has ended without a failing
\* directory enumeration, every file was scanned, a file whose open or read
\* failed contributed the matches of the lines completed before the error,
\* every other file its matches, in scan order, and the job emitted finished
\* with exactly that list.
C7_FileErrorsAreNotFatal ==
    \A t \in Jobs :
        LET th == threads[t]
        IN  (Ended(t) /\ th.running /\ ~Fatal(t)) =>
               /\ Len(th.scanned) = IF th.is_directory THEN Len(th.log_files) ELSE 1
               /\ \A i \in 1..Len(th.scanned) : th.scanned[i].how # "stopped"
               /\ th.results =
                     Flatten([i \in 1..Len(th.scanned) |-> FileOutcome(th, th.scanned[i])])
               /\ Finished(emitted, t) = <<FinishedSignal(t, th.results)>>

\* a read of the first file failed after a match, the second file was
\* scanned to its end, and the job finished with the matches of both
C7_Witness ==
    \E t \in Jobs :
        /\ Ended(t)
        /\ threads[t].running
        /\ Len(threads[t].scanned) = 2
        /\ threads[t].scanned[1].how = "error"
        /\ threads[t].scanned[1].pos > 0
        /\ threads[t].scanned[2].how = "eof"
        /\ Len(threads[t].results) = 2
        /\ Finished(emitted, t) # <<>>

\* C8: a search in regex mode whose pattern does not compile never becomes a
\* job: no thread exists for it.
C8_BadRegexNeverRuns ==
    \A t \in Jobs : PatternOk(threads[t])

\* the input is rejected by the checks the claim names
BadInput(path, pattern) == path = "" \/ pattern = <<>> \/ ~PathExists(path)
BadInputs ==
    {in \in Paths \X (Patterns \cup {<<>>}) \X BOOLEAN : BadInput(in[1], in[2])}

\* a step that leaves alone what every click on Search leaves alone
MayBeSearchClick ==
    /\ gui_pc = "idle"
    /\ search_enabled
    /\ gui_pc' = gui_pc
    /\ event_queue' = event_queue
    /\ delivered' = delivered

\* C9: a click on Search with an empty path, an empty pattern or a path that
\* does not exist sets an error status and changes neither the threads, the
\* stored thread, the results text nor the two buttons.
C9_BadInputStartsNothing ==
    [][MayBeSearchClick =>
          \A in \in BadInputs :
             _on_search_clicked(in[1], in[2], in[3])
                => /\ status_label' \in {StatusEmptyInput, StatusNoPath}
                   /\ UNCHANGED <<threads, analyzer_thread, results_text, search_enabled,
                                  cancel_enabled>>]_vars

\* after a finished job, a search for a path that does not exist was refused
C9_Witness ==
    /\ status_label = StatusNoPath
    /\ analyzer_thread = 1
    /\ Len(threads) = 1
    /\ search_enabled
    /\ results_text = TextNoMatches

\* the finished signal of job t was the last signal delivered, and no click
\* on Search has written an input error over its status since
ShowsResultOf(t) ==
    /\ status_label \notin {StatusEmptyInput, StatusNoPath}
    /\ delivered # <<>>
    /\ Last(delivered).job = t
    /\ Last(delivered).signal = "finished"

\* a single-file job that was not stopped and met no error
CleanFileScan(t) ==
    /\ ~threads[t].is_directory
    /\ threads[t].running
    /\ PatternOk(threads[t])
    /\ threads[t].scanned # <<>>
    /\ threads[t].scanned[1].how = "eof"

\* C10 as stated: the result list is the records of the matching lines and
\* the status is "Analysis complete: N matches found" for every N.
C10_StatusAlwaysCounts ==
    \A t \in Jobs :
        (CleanFileScan(t) /\ ShowsResultOf(t)) =>
           /\ threads[t].results =
                 RecordsOf(FileLines(files["f"]), threads[t].pattern, threads[t].is_regex)
           /\ Last(delivered).results = threads[t].results
           /\ status_label = StatusComplete(Len(threads[t].results))

\* C10 amended: the same, with the status "Analysis complete: No matches
\* found" when N = 0.
C10_ResultsAndStatus ==
    \A t \in Jobs :
        (CleanFileScan(t) /\ ShowsResultOf(t)) =>
           /\ threads[t].results =
                 RecordsOf(FileLines(files["f"]), threads[t].pattern, threads[t].is_regex)
           /\ Last(delivered).results = threads[t].results
           /\ status_label = IF threads[t].results # <<>>
                             THEN StatusComplete(Len(threads[t].results))
                             ELSE StatusNoMatches

\* the lines a / B with the literal pattern b gave the one record "2: B"
C10_Witness ==
    \E t \in Jobs :
        /\ CleanFileScan(t)
        /\ ShowsResultOf(t)
        /\ ~threads[t].is_regex
        /\ files["f"] = <<"a", NL, "B">>
        /\ threads[t].results = <<<<"2", ":", " ", "B">>>>
        /\ status_label = <<"Analysis complete: ", "1", " matches found">>

\* the lines of a displayed text, split by halves
RECURSIVE TextLines(_)
TextLines(text) ==
    IF Len(text) <= 1
    THEN IF text = <<NL>> THEN <<<<>>, <<>>>> ELSE <<text>>
    ELSE LET half == Len(text) \div 2
             left == TextLines(SubSeq(text, 1, half))
             right == TextLines(SubSeq(text, half + 1, Len(text)))
         IN  AllButLast(left) \o <<Last(left) \o Head(right)>> \o Tail(right)

\* the line that tells how many matches are not displayed
IsRemainderLine(line) == line # <<>> /\ line[1] = "... and "

\* the records a results text displays: the lines after the heading and its
\* two empty lines that are neither empty nor the remainder line
DisplayedRecords(text) ==
    LET lines == TextLines(text)
    IN  IF Len(lines) < 4 \/ lines[1][1] # "Found " THEN <<>>
        ELSE SelectSeq(SubSeq(lines, 4, Len(lines)),
                       LAMBDA line : line # <<>> /\ ~IsRemainderLine(line))

\* the remainder lines a results text displays
RemainderLines(text) == SelectSeq(TextLines(text), IsRemainderLine)

\* C11: when the finished signal of a job with N results is the one shown,
\* the results text displays exactly the first min(N, 1000) records in order,
\* it has a remainder line, telling N - 1000, exactly when N > 1000, and the
\* status tells N (in words when N = 0).
C11_CapLimitsDisplayOnly ==
    \A t \in Jobs :
        ShowsResultOf(t) =>
           LET results == Last(delivered).results
               N == Len(results)
           IN  /\ results = threads[t].results
               /\ DisplayedRecords(results_text) = SubSeq(results, 1, Min(N, DisplayCap))
               /\ RemainderLines(results_text) =
                     IF N > DisplayCap
                     THEN <<(<<"... and ">> \o IntToStr(N - DisplayCap)
                                \o <<" more matches">>)>>
                     ELSE <<>>
               /\ status_label = IF N = 0 THEN StatusNoMatches ELSE StatusComplete(N)

\* 1500 matches: 1000 records displayed, remainder 500, status 1500
C11_Witness ==
    \E t \in Jobs :
        /\ ShowsResultOf(t)
        /\ Len(threads[t].results) = 1500
        /\ Len(DisplayedRecords(results_text)) = 1000
        /\ Last(results_text) = " more matches"
        /\ results_text[Len(results_text) - 1] = "0"
        /\ results_text[Len(results_text) - 3] = "5"
        /\ status_label = <<"Analysis complete: ", "1", "5", "0", "0", " matches found">>

\* the names of the entries of "d" in lexical order
LexicalNames == <<"a.txt", "b.log", "c.dat">>

\* the entries of "d" a directory job is to scan, in lexical order
LexicalLogFiles ==
    SelectSeq(LexicalNames,
              LAMBDA name : \E e \in DirEntries : e.name = name /\ e.ext \in {"log", "txt"})

\* C12: once a directory job has enumerated the directory, the files it is
\* going to scan are the entries named *.log or *.txt, each once, in lexical
\* order.
C12_LexicalScanOrder ==
    \A t \in Jobs :
        (threads[t].is_directory /\ threads[t].pc # "run" /\ ~Fatal(t))
           => threads[t].log_files = LexicalLogFiles

\* int(s) for a string of digits
DigitValue(c) == CHOOSE d \in 0..9 : DigitChar(d) = c
RECURSIVE StrToInt(_)
StrToInt(s) == IF s = <<>> THEN 0
               ELSE 10 * StrToInt(AllButLast(s)) + DigitValue(Last(s))

\* the line number a record "<n>: <text>" starts with
RecordNumber(record) ==
    LET colon == CHOOSE i \in 1..Len(record) :
                    record[i] = ":" /\ \A j \in 1..(i - 1) : record[j] # ":"
    IN  StrToInt(SubSeq(record, 1, colon - 1))

\* the line numbers of a list of records are strictly increasing
NumbersIncrease(records) ==
    \A i \in 1..(Len(records) - 1) :
        RecordNumber(records[i]) < RecordNumber(records[i + 1])

\* C13: in every state of a job, its result list is the concatenation of the
\* lists the calls of _analyze_file returned, in the order of the calls, and
\* the line numbers increase strictly within each of these lists and within
\* the list of the call in progress.
C13_DiscoveryOrder ==
    \A t \in Jobs :
        LET th == threads[t]
        IN  /\ th.results = Flatten([i \in 1..Len(th.scanned) |-> th.scanned[i].found])
            /\ \A i \in 1..Len(th.scanned) : NumbersIncrease(th.scanned[i].found)
            /\ NumbersIncrease(th.file_results)
            /\ th.is_directory =>
                  \A i \in 1..Len(th.scanned) : th.scanned[i].name = th.log_files[i]

\* a directory job was stopped in its second file after two matches in the
\* first one, and has ended
C13_Witness ==
    \E t \in Jobs :
        /\ Ended(t)
        /\ ~threads[t].running
        /\ Len(threads[t].scanned) = 2
        /\ Len(threads[t].scanned[1].found) = 2
        /\ threads[t].scanned[2].how = "stopped"
        /\ threads[t].results = threads[t].scanned[1].found

\* C14: at most one analyzer thread of the screen is running at any time
\* (stated for the threads whose run() still has to emit its last signal, so
\* that a thread which only has to return does not count), and whenever the
\* GUI thread is not inside a handler, a current job that was stopped has
\* terminated.
C14_OneThreadRunning ==
    /\ Cardinality({t \in Jobs : ~Ended(t)}) <= 1
    /\ (gui_pc \in {"idle", "closed"} /\ analyzer_thread > 0
           /\ ~threads[analyzer_thread].running)
          => ~isRunning(analyzer_thread)

\* C15: under fair scheduling, a job that was stopped terminates, and a GUI
\* thread blocked in the wait() of _on_cancel_clicked or of cleanup gets out
\* of it.
C15_StoppedJobTerminates ==
    /\ \A t \in 1..MaxJobs :
          (t \in Jobs /\ ~threads[t].running) ~> (t \in Jobs /\ ~isRunning(t))
    /\ (gui_pc = "wait") ~> (gui_pc = "idle")
    /\ (gui_pc = "cleanup_wait") ~> (gui_pc = "closed")

\* a directory job stopped in its first file has terminated without opening
\* the second one, and the wait() of the GUI thread can return
C15_Witness ==
    \E t \in Jobs :
        /\ ~threads[t].running
        /\ ~isRunning(t)
        /\ threads[t].is_directory
        /\ Len(threads[t].log_files) = 2
        /\ Len(threads[t].scanned) = 1
        /\ threads[t].scanned[1].how = "stopped"
        /\ gui_pc \in {"wait", "cleanup_wait"}

\* two characters are the same letter, whatever their case
SameLetter(c, d) == c = d \/ {c, d} = {"b", "B"}

\* the pattern occurs in the line at offset i, letters compared by eq
OccursAt(pattern, line, i, eq(_, _)) ==
    /\ i + Len(pattern) <= Len(line)
    /\ \A j \in 1..Len(pattern) : eq(line[i + j], pattern[j])

\* what a line is to satisfy to be a match
ShouldMatch(pattern, is_regex, line) ==
    IF ~is_regex
    THEN \E i \in 0..Len(line) : OccursAt(pattern, line, i, SameLetter)
    ELSE IF pattern[1] = "^"
    THEN OccursAt(Tail(pattern), line, 0, LAMBDA c, d : c = d)
    ELSE \E i \in 0..Len(line) : OccursAt(pattern, line, i, LAMBDA c, d : c = d)

\* the records of the numbered lines that are to match
RecordsOfSeen(th) ==
    LET hits == SelectSeq(th.seen, LAMBDA e : ShouldMatch(th.pattern, th.is_regex, e[2]))
    IN  [i \in 1..Len(hits) |-> FormatRecord(hits[i][1], hits[i][2])]

\* C16: the records of a call of _analyze_file are those of the lines it has
\* numbered, complete or final, that contain the pattern whatever the case
\* (literal mode) or in which the pattern matches somewhere (regex mode).
C16_MatchTest ==
    \A t \in Jobs :
        LET th == threads[t]
        IN  PatternOk(th) =>
               /\ th.pc \in {"chunk_loop", "last_line"} => th.file_results = RecordsOfSeen(th)
               /\ (th.scanned # <<>> /\ th.pc \in {"emit_finished", "exit", "done"})
                     => Last(th.scanned).found = RecordsOfSeen(th)

\* the literal pattern "b" was found in the final line "aBa", which no
\* newline ends
C16_Witness ==
    \E t \in Jobs :
        /\ threads[t].pc = "done"
        /\ threads[t].scanned # <<>>
        /\ ~threads[t].is_regex
        /\ threads[t].pattern = <<"b">>
        /\ files["f"] = <<"a", "B", "a">>
        /\ threads[t].results = <<<<"1", ":", " ", "a", "B", "a">>>>

\* what get returns for a key on the defaults as __init__ wrote them
OriginalGet(key) == GetIn(DefaultsHeap, defaults, key)

\* C17: after reset, get returns for every key what the defaults hold for
\* it, nested keys included, and None for a key only set had added.
C17_ResetRestoresDefaults ==
    settings_call.op = "reset" => \A k \in GetKeys : get(k) = OriginalGet(k)

\* neither key is the other one cut at a dot
Unrelated(k, key) ==
    /\ ~IsPrefix(KeySplit(k), KeySplit(key))
    /\ ~IsPrefix(KeySplit(key), KeySplit(k))

\* C18: after set(key, value), get(key) returns value, and get returns what
\* it returned before for every key that is neither key, nor a prefix, nor an
\* extension of it.
C18_SetGetRoundTrip ==
    settings_call.op = "set" =>
       /\ get(settings_call.key) = Scalar(settings_call.value)
       /\ \A k \in GetKeys :
             Unrelated(k, settings_call.key) => get(k) = settings_call.before[k]

\* the "Processing ..." messages of job t in a history
Processing(history, t) ==
    SelectSeq(history, LAMBDA sig : /\ sig.job = t
                                    /\ sig.signal = "progress"
                                    /\ sig.message[1] \in {"Processing ", "Processing file..."})

\* C19: in a step taken while the flag of job t is cleared, no chunk is read
\* and no line is numbered by job t, and a directory job opens no file and
\* emits no "Processing <file>" message (a call of _analyze_file in progress
\* may return).
C19_NothingReadAfterStop ==
    [][\A t \in Jobs :
          ~threads[t].running =>
             /\ threads'[t].pos <= threads[t].pos
             /\ Len(threads'[t].seen) <= Len(threads[t].seen)
             /\ threads[t].is_directory =>
                   /\ threads'[t].cur = threads[t].cur
                   /\ Len(threads'[t].scanned) <=
                         Len(threads[t].scanned)
                            + (IF threads[t].pc \in {"chunk_loop", "last_line"} THEN 1 ELSE 0)
                   /\ Processing(emitted', t) = Processing(emitted, t)]_vars

\* a directory job stopped after the first chunk of its first file has
\* ended: the rest of that file was not read, the second file was not
\* opened, and one "Processing <file>" message was emitted
C19_Witness ==
    \E t \in Jobs :
        /\ threads[t].is_directory
        /\ ~threads[t].running
        /\ Ended(t)
        /\ Len(threads[t].log_files) = 2
        /\ Len(threads[t].scanned) = 1
        /\ threads[t].scanned[1].pos = chunk_size
        /\ threads[t].scanned[1].pos < Len(files[threads[t].scanned[1].name])
        /\ Len(Processing(emitted, t)) = 1

\* the progress signals of job t in a history
Progress(history, t) ==
    SelectSeq(history, LAMBDA sig : sig.job = t /\ sig.signal = "progress")

\* the number of files job t has begun to scan
FilesStarted(t) ==
    Len(threads[t].scanned)
       + (IF threads[t].pc \in {"chunk_loop", "last_line"} THEN 1 ELSE 0)

\* C20: the progress signals a job has emitted are, for a single-file job,
\* the one "Processing file..." once run() has begun, and for a directory job
\* one "Processing <file>" for each file it has begun to scan, in scan order,
\* and nothing else; a finished signal comes after them.
C20_OneProgressPerFile ==
    \A t \in Jobs :
        LET th == threads[t]
            all == OfJob(emitted, t)
        IN  /\ Progress(emitted, t) =
                  IF th.is_directory
                  THEN [i \in 1..FilesStarted(t) |->
                           ProgressSignal(t, ProgressNamed(th.log_files[i]))]
                  ELSE IF th.pc = "run" THEN <<>>
                  ELSE <<ProgressSignal(t, ProgressFile)>>
            /\ \A i \in 1..Len(all) : all[i].signal = "finished" => i = Len(all)

\* what follows the last newline of a text (the text if it has none)
AfterLastNewline(text) ==
    LET at == {i \in 1..Len(text) : text[i] = NL}
        last == IF at = {} THEN 0 ELSE CHOOSE i \in at : \A j \in at : j <= i
    IN  SubSeq(text, last + 1, Len(text))

\* the text has n characters in a row without a newline
HasLineOfLength(text, n) ==
    \E i \in 0..(Len(text) - n) : \A j \in (i + 1)..(i + n) : text[j] # NL

\* C21: between two passes of the chunk loop and after it, the carry buffer
\* holds no newline, it is the text read so far after its last newline, and
\* the file has a line at least as long.
C21_CarryIsLastPartialLine ==
    \A t \in Jobs :
        LET th == threads[t]
        IN  th.pc \in {"chunk_loop", "last_line"} =>
               /\ \A i \in 1..Len(th.buffer) : th.buffer[i] # NL
               /\ th.buffer = AfterLastNewline(SubSeq(files[th.cur], 1, th.pos))
               /\ HasLineOfLength(files[th.cur], Len(th.buffer))

\* with chunks of one character, the carry "aB" after the newline of the
\* text was put together from two chunks
C21_Witness ==
    \E t \in Jobs :
        /\ threads[t].pc = "chunk_loop"
        /\ chunk_size = 1
        /\ files[threads[t].cur] = <<NL, "a", "B">>
        /\ threads[t].pos = 3
        /\ threads[t].buffer = <<"a", "B">>

\* C22: once the thread of a started job has ended, the screen gets back to
\* Search enabled and Cancel disabled (unless the window is closed first).
C22_SearchAvailableAgain ==
    \A t \in 1..MaxJobs :
        (t \in Jobs /\ ~isRunning(t))
            ~> ((search_enabled /\ ~cancel_enabled) \/ gui_pc \in {"closed", "raised"})

\* C23: cleanup never raises, whatever the state of the screen it is called
\* on.
C23_CleanupNeverRaises == gui_pc # "raised"

\* C24: what the screen shows belongs to the job started last: a slot call
\* for a signal of an earlier job changes no widget, and while the job
\* started last is running Search stays disabled and Cancel enabled.
C24_ShownBelongsToNewestJob ==
    [][/\ delivered' # delivered =>
             \/ Last(delivered').job = analyzer_thread
             \/ UNCHANGED widget_vars
       /\ (analyzer_thread' > 0 /\ ~Ended(analyzer_thread)')
             => (~search_enabled' /\ cancel_enabled')]_vars

\* the record is "<n>: <line>" for line n of the text
IsRecordOfLine(record, text) ==
    \E n \in 1..Len(FileLines(text)) : record = FormatRecord(n, FileLines(text)[n])

\* every line job t gave to the match test and every record it holds or
\* returned is a whole line of the file it came from
CompleteLinesOnly(t) ==
    LET th == threads[t]
    IN  /\ \A i \in 1..Len(th.seen) :
              /\ th.seen[i][1] <= Len(FileLines(files[th.cur]))
              /\ th.seen[i][2] = FileLines(files[th.cur])[th.seen[i][1]]
        /\ \A i \in 1..Len(th.file_results) :
              IsRecordOfLine(th.file_results[i], files[th.cur])
        /\ \A i \in 1..Len(th.scanned) : \A j \in 1..Len(th.scanned[i].found) :
              IsRecordOfLine(th.scanned[i].found[j], files[th.scanned[i].name])
        /\ \A i \in 1..Len(th.results) :
              \E name \in FileNames : IsRecordOfLine(th.results[i], files[name])

\* C25: every record of a scan, stopped or not, is a whole line of the file:
\* the carry of a stopped scan is not taken for a line, because the stop
\* flag of a job whose scan a stop has ended is still cleared.
C25_RecordsAreCompleteLines ==
    \A t \in Jobs :
        LET th == threads[t]
        IN  /\ CompleteLinesOnly(t)
            /\ (\/ th.pc = "last_line" /\ ~th.at_eof
                \/ \E i \in 1..Len(th.scanned) : th.scanned[i].how = "stopped")
                  => ~th.running

\* the scan of "Ba" + newline for "b" was stopped after the chunk "B": the
\* carry "B" would have matched, and the job ended with no record
C25_Witness ==
    \E t \in Jobs :
        /\ Ended(t)
        /\ ~threads[t].running
        /\ threads[t].pattern = <<"b">>
        /\ ~threads[t].is_regex
        /\ files[threads[t].cur] = <<"B", "a", NL>>
        /\ Len(threads[t].scanned) = 1
        /\ threads[t].scanned[1].how = "stopped"
        /\ threads[t].scanned[1].pos = 1
        /\ threads[t].results = <<>>

\* C26: every enabled plugin name is a loaded one, so get_enabled_plugins
\* lists an instance for every enabled name; after enable_plugin returned
\* True the name is in both sets, and after unload_plugin returned True it is
\* in neither.
C26_EnabledAreLoaded ==
    /\ enabled_plugins \subseteq DOMAIN plugins
    /\ get_enabled_plugins = enabled_plugins
    /\ (plugin_call.op = "enable_plugin" /\ plugin_call.result)
          => (plugin_call.name \in enabled_plugins /\ plugin_call.name \in DOMAIN plugins)
    /\ (plugin_call.op = "unload_plugin" /\ plugin_call.result)
          => (plugin_call.name \notin enabled_plugins
                /\ plugin_call.name \notin DOMAIN plugins)

\* plugin 1 was unloaded while it and plugin 2 were enabled: plugin 2 is
\* still enabled and loaded
C26_Witness ==
    /\ plugin_call.op = "unload_plugin"
    /\ plugin_call.result
    /\ plugin_call.name = 1
    /\ plugin_call.enabled = {1, 2}
    /\ enabled_plugins = {2}
    /\ DOMAIN plugins = {2}

\* C27: setup_ui is called at most once, by an initialize that found the
\* screen not initialized; an initialize on an initialized screen changes
\* nothing; refresh calls load_data once on an initialized screen and does
\* nothing on a screen that is not.
C27_InitializeOnceRefreshAfter ==
    [][/\ setup_ui_calls' <= 1
       /\ setup_ui_calls' # setup_ui_calls => (initialize /\ ~initialized)
       /\ (initialize /\ initialized) => UNCHANGED vars
       /\ refresh => /\ load_data_calls' = load_data_calls + (IF initialized THEN 1 ELSE 0)
                     /\ ~initialized => UNCHANGED vars]_vars

\* a refresh has replaced the results of a finished search: load_data was
\* called by initialize and by refresh, setup_ui once
C27_Witness ==
    /\ initialized
    /\ setup_ui_calls = 1
    /\ load_data_calls = 2
    /\ results_text = TextNoResultsYet
    /\ status_label = StatusComplete(1)

====
